---- MODULE Spec2Model ----
(***************************************************************************)
(* Model of the Harililamrut extractors.                                   *)
(*   fetch_to_md.py       : looks_like_error_page, fetch_with_backoff,     *)
(*                          save_progress, run_resilient                   *)
(*   extract_one_page.py  : extract_footnotes, convert_and_write           *)
(* The crawl (run_resilient with the fetch loop inlined at its call site)  *)
(* is the specification Spec; the one-page pipeline is SpecPage.           *)
(***************************************************************************)
EXTENDS Integers, Sequences, FiniteSets, TLC

VARIABLES
    \* ---- run_resilient parameters and locals
    start_url, max_pages, max_attempts,
    pc, current, visited, page_count, next_link,
    collected_footnotes,    \* the number of entries of the list
    output, progress,
    \* ---- fetch_with_backoff locals (one call at a time)
    attempt, backoff, status, body, html,
    \* ---- observation of the run (what was requested, slept, decided)
    requests, transients, sleeps, decision, fetchOutcome,
    fetched, delays, delayPending, stopReason,
    \* ---- process_one_page (extract_one_page.py)
    ppc,         \* position in process_one_page
    soup,        \* the parsed page tree
    footnotes,   \* the list extract_footnotes returned
    written,     \* the paragraphs convert_and_write wrote
    content,     \* the element find_main_content returned
    combined     \* the text convert_and_write joins and normalizes

crawlVars == << start_url, max_pages, max_attempts, pc, current, visited,
                page_count, next_link, collected_footnotes, output, progress,
                attempt, backoff, status, body, html,
                requests, transients, sleeps, decision, fetchOutcome,
                fetched, delays, delayPending, stopReason >>

pageVars == << ppc, soup, footnotes, written, content, combined >>

vars == << crawlVars, pageVars >>

----------------------------------------------------------------------------
(* Bounds of the model *)
NumUrls        == 3     \* distinct page paths the site can link to
MaxPagesCap    == 3     \* max_pages is drawn from 1..MaxPagesCap
MaxAttemptsCap == 3     \* max_attempts is drawn from 1..MaxAttemptsCap
MaxEntries     == 3     \* children of a footnote container or of its list
MaxRefs        == 2     \* inline hyperlinks and superscripts of a page
MaxHeadings    == 2     \* headings of a page
MaxTables      == 2     \* tables of a page
MaxElements    == 2     \* elements of a page the content selector looks at
MaxTextLen     == 7     \* characters of a rendered text

(* Program constants *)
BACKOFF_INITIAL    == 6
BACKOFF_MULTIPLIER == 2
MIN_BODY_LEN       == 100

----------------------------------------------------------------------------
(* URLs: a path and a fragment; path 0 is None / the empty string.         *)
NoUrl == [path |-> 0, frag |-> 0]
Urls  == [path : 1..NumUrls, frag : 0..1]

\* the start URL: empty, or (page paths being interchangeable) the first
\* path, with or without a fragment
SeedUrls == {NoUrl} \cup { u \in Urls : u.path = 1 }

\* urlparse(next_link)._replace(fragment="").geturl()
StripFragment(u) == [u EXCEPT !.frag = 0]

\* make_page_label: built from the query / path, never from the fragment
make_page_label(u) == u.path

----------------------------------------------------------------------------
(* Response bodies.  A body is leading whitespace, a core text without     *)
(* surrounding whitespace, and trailing whitespace; sig is the error       *)
(* signature spelled inside the core ("" when there is none).              *)
ERROR_PATTERNS == {"max_user_connections", "Fatal error",
                   "Service temporarily unavailable"}

\* str.lower() on the spellings that occur
Lower(s) ==
    CASE s = "MAX_USER_CONNECTIONS" -> "max_user_connections"
      [] s = "Max_User_Connections" -> "max_user_connections"
      [] s = "Fatal error"          -> "fatal error"
      [] s = "FATAL ERROR"          -> "fatal error"
      [] s = "Service temporarily unavailable"
                                    -> "service temporarily unavailable"
      [] OTHER                      -> s

BodyLen(b)      == b.lead + b.core + b.trail
\* len(text.strip())
StrippedLen(b)  == b.core

NoBody == [lead |-> 0, core |-> 0, trail |-> 0, sig |-> "none"]

Bodies ==
    { [lead |-> 0,  core |-> 0,   trail |-> 0,  sig |-> ""],
      [lead |-> 0,  core |-> 99,  trail |-> 0,  sig |-> ""],
      [lead |-> 0,  core |-> 100, trail |-> 0,  sig |-> ""],
      [lead |-> 0,  core |-> 500, trail |-> 0,  sig |-> ""],
      [lead |-> 30, core |-> 40,  trail |-> 60, sig |-> ""],
      [lead |-> 10, core |-> 100, trail |-> 10, sig |-> ""],
      [lead |-> 0,  core |-> 300, trail |-> 0,  sig |-> "max_user_connections"],
      [lead |-> 0,  core |-> 300, trail |-> 0,  sig |-> "MAX_USER_CONNECTIONS"],
      [lead |-> 0,  core |-> 300, trail |-> 0,  sig |-> "FATAL ERROR"] }

Statuses == {200, 204, 301, 404, 429, 503}

\* bodies paired with the statuses whose branch does not read the body
PlainBodies == { b \in Bodies : b.lead = 0 /\ b.core \in {0, 500} }

Responses == { r \in [status : Statuses, body : Bodies] :
                 r.status # 200 => r.body \in PlainBodies }

NoStatus == 0

\* mutant: the body is searched without lower-casing it
MatchesErrorPattern_CaseSensitive(b) ==
    \E pat \in ERROR_PATTERNS : pat = b.sig

\* re.search(pat.lower(), lower) for some pat in ERROR_PATTERNS
MatchesErrorPattern(b) ==
    \E pat \in ERROR_PATTERNS : Lower(pat) = Lower(b.sig)

\* mutant: the length of the body is not looked at
looks_like_error_page_NoLengthTest(b) ==
    IF BodyLen(b) = 0 THEN TRUE
    ELSE IF MatchesErrorPattern(b) THEN TRUE
    ELSE FALSE

\* looks_like_error_page(text)
looks_like_error_page(b) ==
    IF BodyLen(b) = 0 THEN TRUE
    ELSE IF MatchesErrorPattern(b) THEN TRUE
    ELSE IF StrippedLen(b) < MIN_BODY_LEN THEN TRUE
    ELSE FALSE

\* the status tests of fetch_with_backoff on a received response
IsRetryStatus(s) == s >= 500 \/ s = 429

----------------------------------------------------------------------------
(* Output file: a sequence of blocks.                                      *)
HeaderBlock     == [kind |-> "header", url |-> NoUrl, label |-> 0]
OldBlock        == [kind |-> "old",    url |-> NoUrl, label |-> 0]
FooterBlock     == [kind |-> "footer", url |-> NoUrl, label |-> 0]
PageBlock(u)    == [kind |-> "page",   url |-> u, label |-> make_page_label(u)]

\* safe_append_to_file: open(..., "a") and write
safe_append_to_file(file, block) == Append(file, block)

NoProgress == [saved |-> FALSE, visited |-> {}, next_url |-> NoUrl]

\* save_progress(visited, next_url, output_file): overwrite the record
save_progress(v, n) == [saved |-> TRUE, visited |-> v, next_url |-> n]

PageBlocks(file) == { i \in 1..Len(file) : file[i].kind = "page" }

IsPrefix(s, t) == Len(s) <= Len(t) /\ \A i \in 1..Len(s) : s[i] = t[i]

----------------------------------------------------------------------------
(* The page tree of extract_one_page.py, as far as the footnote pipeline    *)
(* reads it.  A node is a child element: its tag, its id attribute ("" when *)
(* absent) and its inner markup.  The footnote container holds either an    *)
(* ordered list (its kids are the children of the <ol>) or plain children.  *)
NodeTags  == {"li", "p", "span"}
NodeIds   == {"", "a"}
NodeHtmls == {"", "<br/>", "note", "1. note"}
Nodes     == [tag : NodeTags, id : NodeIds, html : NodeHtmls]

SeqsUpTo(S, n) == UNION { [1..k -> S] : k \in 0..n }

NoContainer == [present |-> FALSE, id |-> "", ol |-> FALSE, kids |-> <<>>]
Containers ==
    [present : {TRUE}, id : {"footnotes", ""}, ol : BOOLEAN,
     kids : SeqsUpTo(Nodes, MaxEntries)]

\* markdownify(inner_html).strip(): markup without text converts to nothing
md(h) == IF h = "<br/>" THEN "" ELSE h

\* get_text(" ", strip=True)
get_text(h) == IF h = "<br/>" THEN "" ELSE h

\* converted = md(inner_html).strip(); if not converted: converted = get_text
Converted(h) == IF md(h) # "" THEN md(h) ELSE get_text(h)

\* mutant: the sequence number counts from 0
SeqNum_ZeroBased(i) == i - 1

\* enumerate(items, start=1)
SeqNum(i) == i

\* el.get('id') or f"fn-{i}"
EntryId(id, i) ==
    IF id # "" THEN id
    ELSE CASE i = 1 -> "fn-1" [] i = 2 -> "fn-2" [] i = 3 -> "fn-3"
           [] i = 4 -> "fn-4" [] OTHER -> "fn-n"

Record(node, i) ==
    [id |-> EntryId(node.id, i), num |-> SeqNum(i), html |-> node.html,
     md |-> Converted(node.html)]

Enumerate(items) == [i \in 1..Len(items) |-> Record(items[i], i)]

IsListItem(n) == n.tag = "li"
IsBlockChild(n) == n.tag \in {"li", "div", "p"}

\* "".join(str(c) for c in footnotes_div.contents).strip(): the markup of the
\* children, which reads as the first child that carries text
InnerHtml(kids) ==
    LET texts == { i \in 1..Len(kids) : md(kids[i].html) # "" }
        first == CHOOSE i \in texts : \A j \in texts : i <= j
    IN  IF texts # {} THEN kids[first].html
        ELSE IF \E i \in 1..Len(kids) : kids[i].html # "" THEN "<br/>"
        ELSE ""

\* the entries extract_footnotes enumerates in a container (lines 107-153)
Entries(c) ==
    IF c.ol THEN SelectSeq(c.kids, IsListItem)
    ELSE IF SelectSeq(c.kids, IsBlockChild) # <<>>
         THEN SelectSeq(c.kids, IsBlockChild)
         ELSE << [tag |-> "div", id |-> c.id, html |-> InnerHtml(c.kids)] >>

\* extract_footnotes(soup): the records returned
extract_footnotes(c) ==
    IF ~c.present THEN <<>> ELSE Enumerate(Entries(c))

\* txt = e.get('md') or e.get('html') or ''
EntryText(e) == IF e.md # "" THEN e.md ELSE e.html

\* re.sub(r'^\s*\d+\.\s*', '', txt)
StripNumbering(t) == IF t = "1. note" THEN "note" ELSE t

\* parts.append(f"[{e['num']}] {txt}")
FootnoteLine(e) ==
    [kind |-> "footnote", num |-> e.num, txt |-> StripNumbering(EntryText(e)),
     src |-> "footdiv"]

\* src tells where in the page tree the text of a line was taken from
HeadingLine == [kind |-> "heading", num |-> 0, txt |-> "## Footnotes",
                src |-> "section"]
MainLine    == [kind |-> "main", num |-> 0, txt |-> "text", src |-> "body"]

\* md(str(main)): the text of the content element, which includes the text
\* of a footnote container that is still attached inside it
MainMd(sp) ==
    <<MainLine>> \o
    [i \in 1..Len(sp.refs) |->
        [kind |-> "main", num |-> 0, txt |-> sp.refs[i].content,
         src |-> "body"]] \o
    (IF sp.footdiv.present /\ sp.footInMain
     THEN [i \in 1..Len(sp.footdiv.kids) |->
             [kind |-> "main", num |-> 0,
              txt |-> get_text(sp.footdiv.kids[i].html), src |-> "footdiv"]]
     ELSE <<>>)

\* fetch_to_md.py lines 162-165 and 205-206: md(str(footnotes_div))
FootnotesBlob(c) ==
    IF c.present /\ md(InnerHtml(c.kids)) # ""
    THEN << [kind |-> "footnote", num |-> 0, txt |-> md(InnerHtml(c.kids)),
             src |-> "footdiv"] >>
    ELSE <<>>

\* lines 232-245: the footnotes section of the written document
FootMd(fs) ==
    IF fs = <<>> THEN <<>>
    ELSE <<HeadingLine>> \o [i \in 1..Len(fs) |-> FootnoteLine(fs[i])]

----------------------------------------------------------------------------
(* Inline references of extract_one_page.py.  An element of the page text  *)
(* is a hyperlink, a superscript wrapping a hyperlink, or a bare           *)
(* superscript: sup / anchor tell which tags are there, href, cls and text *)
(* are the hyperlink's attributes and visible text, extra is the text the  *)
(* superscript holds beside the hyperlink.                                 *)
Link(h, c, t) ==
    [sup |-> FALSE, anchor |-> TRUE, href |-> h, cls |-> c, text |-> t,
     extra |-> ""]
SupLink(h, c, t, x) ==
    [sup |-> TRUE, anchor |-> TRUE, href |-> h, cls |-> c, text |-> t,
     extra |-> x]
BareSup(x) ==
    [sup |-> TRUE, anchor |-> FALSE, href |-> "", cls |-> "", text |-> "",
     extra |-> x]

Elements ==
    { Link("#a", "", "1"),
      Link("#b", "", "2"),
      Link("#b", "", "see note"),
      Link("#fn-2", "", ""),
      Link("#note2", "fnref", "see note"),
      Link("#x", "fnref", "1"),
      Link("#x", "", "1234567"),
      Link("/p/2", "", "7"),
      Link("/p/2", "", "see note"),
      Link("", "fnref", ""),
      SupLink("", "", "", "5"),
      SupLink("#a", "", "1", ""),
      BareSup("5"),
      BareSup("12345") }

\* the footnote containers these pages carry: an ordered list of items
RefNodes == [tag : {"li"}, id : {"", "a", "fn-2"}, html : {"note"}]
RefContainers ==
    [present : {TRUE}, id : {"footnotes"}, ol : {TRUE},
     kids : SeqsUpTo(RefNodes, MaxEntries)]

\* href.startswith("#")
IsFragment(h) == h \in {"#a", "#b", "#fn-2", "#note2", "#x"}

\* target = href[1:]
Target(h) ==
    CASE h = "#a" -> "a" [] h = "#b" -> "b" [] h = "#fn-2" -> "fn-2"
      [] h = "#note2" -> "note2" [] h = "#x" -> "x" [] OTHER -> ""

\* re.search(r'(\d+)', target) and int(m.group(1)); 0 when there is no digit
TargetNumber(t) == IF t \in {"fn-2", "note2"} THEN 2 ELSE 0

\* str.isdigit()
IsDigit(t) == t \in {"1", "2", "5", "7", "12345", "1234567"}

\* len(text)
TextLen(t) ==
    CASE t = "" -> 0
      [] t \in {"1", "2", "5", "7"} -> 1
      [] t = "12345" -> 5
      [] t = "1234567" -> 7
      [] t = "see note" -> 8
      [] OTHER -> 9

\* f"{num}"
NumStr(n) ==
    CASE n = 1 -> "1" [] n = 2 -> "2" [] n = 3 -> "3" [] n = 4 -> "4"
      [] OTHER -> "n"

\* re.search(r'fnref|footnote', cls, re.I)
ClassMarksRef(c) == c \in {"fnref", "footnote"}

KnownIds(fs)  == { fs[i].id : i \in 1..Len(fs) }
known_nums(fs) == { fs[i].num : i \in 1..Len(fs) }

\* mutant: the mapping keeps the position of the first entry for every id
id_to_num_First(fs, id) == 1

\* id_to_num = {entry['id']: entry['num'] ...}: a later entry with the same
\* id overwrites an earlier one
id_to_num(fs, id) ==
    LET is   == { i \in 1..Len(fs) : fs[i].id = id }
        last == CHOOSE i \in is : \A j \in is : j <= i
    IN  fs[last].num

\* mutant: the class marks a reference whatever the length of its text
TextRule_ClassAnyLength(e) ==
    IF ClassMarksRef(e.cls) \/ (IsDigit(e.text) /\ TextLen(e.text) <= 6)
    THEN [rule |-> "text", content |-> e.text]
    ELSE [rule |-> "none", content |-> ""]

\* lines 192-196: class or digit text, and the text is at most 6 long
TextRule(e) ==
    IF (ClassMarksRef(e.cls) \/ IsDigit(e.text)) /\ TextLen(e.text) <= 6
    THEN [rule |-> "text", content |-> e.text]
    ELSE [rule |-> "none", content |-> ""]

\* lines 169-196 on one hyperlink: the rule that replaces it and the text
\* put between the brackets
AnchorPass(e, fs) ==
    IF IsFragment(e.href)
    THEN IF Target(e.href) \in KnownIds(fs)
         THEN [rule |-> "id",
               content |-> NumStr(id_to_num(fs, Target(e.href)))]
         ELSE IF TargetNumber(Target(e.href)) # 0
                 /\ TargetNumber(Target(e.href)) \in known_nums(fs)
              THEN [rule |-> "digits",
                    content |-> NumStr(TargetNumber(Target(e.href)))]
              ELSE TextRule(e)
    ELSE TextRule(e)

\* lines 199-202 on one superscript, after the hyperlink pass: its visible
\* text is a number of at most 4 digits
SupReplaced(e, fs) ==
    /\ e.sup
    /\ (e.anchor => AnchorPass(e, fs).rule = "none")
    /\ (e.text # "" \/ e.extra # "")
    /\ (e.text = "" \/ IsDigit(e.text))
    /\ (e.extra = "" \/ IsDigit(e.extra))
    /\ TextLen(e.text) + TextLen(e.extra) <= 4

\* what replace_inline_footnote_refs leaves of one element: anchor is
\* "kept", "replaced" (by [content]), "removed" (with its superscript) or
\* "absent"; text is what the element now reads
Resolve(e, fs) ==
    LET ap == AnchorPass(e, fs) IN
    IF SupReplaced(e, fs)
    THEN [anchor |-> IF e.anchor THEN "removed" ELSE "absent",
          rule |-> "sup", bracket |-> TRUE,
          content |-> IF e.text = "" THEN e.extra ELSE e.text]
    ELSE IF e.anchor /\ ap.rule # "none"
    THEN [anchor |-> "replaced", rule |-> ap.rule, bracket |-> TRUE,
          content |-> ap.content]
    ELSE [anchor |-> IF e.anchor THEN "kept" ELSE "absent",
          rule |-> "none", bracket |-> FALSE,
          content |-> IF e.text = "" THEN e.extra ELSE e.text]

\* replace_inline_footnote_refs(soup, footnotes) over the page text
replace_inline_footnote_refs(inline, fs) ==
    [i \in 1..Len(inline) |-> Resolve(inline[i], fs)]

----------------------------------------------------------------------------
(* find_main_content.  The page is the sequence of its elements in         *)
(* document order; len is the length of an element's rendered text.        *)
PageElements ==
    [tag : {"main", "article", "div"}, id : {"", "content"},
     cls : {"", "content", "post-entry", "sidebar"}, len : {0, 5, 9}]

\* what the selector returns: the position of an element of the page, Body
\* for soup.body or soup; NoContent before it has run
NoContent == -1
Body      == 0

\* lines 211-212: the (attribute, keyword) pairs in the order they are tried
Keywords ==
    << "content", "main", "page", "article", "container", "wrapper", "post",
       "entry" >>
AttrKeywords ==
    [k \in 1..(2 * Len(Keywords)) |->
        IF k <= Len(Keywords)
        THEN [attr |-> "id", name |-> Keywords[k]]
        ELSE [attr |-> "class", name |-> Keywords[k - Len(Keywords)]]]

\* name in v, for the attribute values of PageElements
Contains(v, name) ==
    \/ v = "content" /\ name = "content"
    \/ v = "post-entry" /\ name \in {"post", "entry"}

AttrOf(el, attr) == IF attr = "id" THEN el.id ELSE el.cls

\* soup.find(...): the first element in document order, 0 when there is none
FirstOf(is) ==
    IF is = {} THEN 0 ELSE CHOOSE i \in is : \A j \in is : i <= j

\* line 213: found = soup.find(attrs={attr: lambda v: v and name in v})
Found(els, ak) ==
    FirstOf({ i \in 1..Len(els) :
                Contains(AttrOf(els[i], ak.attr), ak.name) })

\* lines 205-218
find_main_content(els) ==
    LET main    == FirstOf({ i \in 1..Len(els) : els[i].tag = "main" })
        article == FirstOf({ i \in 1..Len(els) : els[i].tag = "article" })
        \* line 214: found and found.get_text(strip=True)
        Cand(k) == /\ Found(els, AttrKeywords[k]) # 0
                   /\ els[Found(els, AttrKeywords[k])].len > 0
        LenAt(k) == els[Found(els, AttrKeywords[k])].len
        ks == { k \in DOMAIN AttrKeywords : Cand(k) }
        \* max(candidates, key=...): the first of the longest candidates
        best == CHOOSE k \in ks :
                    \A j \in ks : \/ LenAt(j) < LenAt(k)
                                  \/ LenAt(j) = LenAt(k) /\ k <= j
    IN  IF main # 0 THEN main
        ELSE IF article # 0 THEN article
        ELSE IF ks # {} THEN Found(els, AttrKeywords[best])
        ELSE Body

----------------------------------------------------------------------------
(* Blank-line normalization: re.sub(r'\n{3,}', '\n\n', text).  A text is   *)
(* a sequence of characters, "n" for the newline, " " and "a" for others.  *)
Chars == {"n", " ", "a"}
Texts == UNION { [1..k -> Chars] : k \in 0..MaxTextLen }

\* the length of the run of newlines that starts at position i
RECURSIVE RunLen(_, _)
RunLen(t, i) ==
    IF i > Len(t) \/ t[i] # "n" THEN 0 ELSE 1 + RunLen(t, i + 1)

\* mutant: the pattern is \n{3}, so each three newlines become two
RECURSIVE CollapseFrom_ExactlyThree(_, _)
CollapseFrom_ExactlyThree(t, i) ==
    IF i > Len(t) THEN <<>>
    ELSE IF RunLen(t, i) >= 3
         THEN <<"n", "n">> \o CollapseFrom_ExactlyThree(t, i + 3)
         ELSE <<t[i]>> \o CollapseFrom_ExactlyThree(t, i + 1)

\* the substitution scans left to right; a match is a maximal run of three
\* or more newlines and is replaced by two
RECURSIVE CollapseFrom(_, _)
CollapseFrom(t, i) ==
    IF i > Len(t) THEN <<>>
    ELSE IF RunLen(t, i) >= 3
         THEN <<"n", "n">> \o CollapseFrom(t, i + RunLen(t, i))
         ELSE <<t[i]>> \o CollapseFrom(t, i + 1)

CollapseBlankLines(t) == CollapseFrom(t, 1)

----------------------------------------------------------------------------
(* remove_top_kalash_heading and remove_nav_table.  Headings and tables    *)
(* are listed in document order; alive turns FALSE when the element is     *)
(* decomposed.                                                             *)
HeadingLevels == 1..6
HeadingTexts  == {"Kalash 3 / Vishram 2", "kalash3/vishram2", "Kalash 3", ""}
Headings == [level : HeadingLevels, text : HeadingTexts, alive : {TRUE}]

\* line 44: text and pattern.search(text), with
\* pattern = kalash\s*\d+\s*/\s*vishram\s*\d+ and re.I
MatchesKalash(t) == t \in {"Kalash 3 / Vishram 2", "kalash3/vishram2"}

\* line 41: for htag in ("h1","h2","h3","h4")
SearchedLevels == 1..4

\* lines 41-46: the levels are searched one after the other, each in
\* document order; the first heading found is decomposed
remove_top_kalash_heading(hs) ==
    LET hits == { i \in 1..Len(hs) : /\ hs[i].level \in SearchedLevels
                                     /\ MatchesKalash(hs[i].text) }
        first == CHOOSE i \in hits :
                    \A j \in hits : \/ hs[i].level < hs[j].level
                                    \/ hs[i].level = hs[j].level /\ i <= j
    IN  IF hits = {} THEN hs ELSE [hs EXCEPT ![first].alive = FALSE]

\* a style attribute is the sequence of its pieces
Styles ==
    { <<>>,
      <<"margin", ":", " ", "auto">>,
      <<"Margin", " ", ":", " ", "Auto">>,
      <<"MARGIN", ":", "AUTO">>,
      <<"margin", ":", "\t", "auto">>,
      <<"margin", ":", "\n", "auto">>,
      <<"width", ":", "100%", ";", "margin", ":", "auto">>,
      <<"width", ":", "100%">> }
TableHrefs == {"/vachanamrut/12", "/about"}
Tables == [style : Styles, links : SUBSET TableHrefs, alive : {TRUE}]

\* str.lower() on one piece
LowerPiece(t) ==
    CASE t \in {"Margin", "MARGIN"} -> "margin"
      [] t \in {"Auto", "AUTO"} -> "auto"
      [] OTHER -> t

\* line 52: (table.get("style") or "").replace(" ", "").lower()
NormalizeStyle(st) ==
    LET NotSpace(t) == t # " "
        kept == SelectSeq(st, NotSpace)
    IN  [i \in 1..Len(kept) |-> LowerPiece(kept[i])]

\* line 53: "margin:auto" in style
HasMarginAuto(st) ==
    \E i \in 1..(Len(st) - 2) :
        st[i] = "margin" /\ st[i + 1] = ":" /\ st[i + 2] = "auto"

\* line 60: any(p in href for p in NAV_LINK_PATTERNS)
IsNavLink(h) == h = "/vachanamrut/12"

\* lines 51-63 on one table
IsNavTable(tb) ==
    \/ HasMarginAuto(NormalizeStyle(tb.style))
    \/ \E h \in tb.links : IsNavLink(h)

remove_nav_table(tbs) ==
    [i \in 1..Len(tbs) |->
        IF IsNavTable(tbs[i]) THEN [tbs[i] EXCEPT !.alive = FALSE]
        ELSE tbs[i]]

----------------------------------------------------------------------------
(* run_resilient *)

\* a page tree without any of the modelled elements
EmptySoup == [footdiv |-> NoContainer, footInMain |-> FALSE,
              inline |-> <<>>, refs |-> <<>>, elements |-> <<>>,
              headings |-> <<>>, tables |-> <<>>]

\* convert_and_write has joined nothing yet
NoText == [joined |-> <<>>, text |-> <<>>]

\* process_one_page is not running
PageIdle ==
    /\ ppc = "idle"
    /\ soup = EmptySoup
    /\ footnotes = <<>>
    /\ written = <<>>
    /\ content = NoContent
    /\ combined = NoText

Init ==
    /\ PageIdle
    /\ start_url \in SeedUrls
    /\ max_pages \in 1..MaxPagesCap
    /\ max_attempts \in 1..MaxAttemptsCap
    /\ pc = "start"
    /\ current = NoUrl
    /\ visited = {}
    /\ page_count = 0
    /\ next_link = NoUrl
    /\ collected_footnotes = 0
    /\ output \in { <<>>, <<OldBlock>> }
    /\ progress = NoProgress
    /\ attempt = 0
    /\ backoff = 0
    /\ status = NoStatus
    /\ body = NoBody
    /\ html = NoBody
    /\ requests = 0
    /\ transients = 0
    /\ sleeps = <<>>
    /\ decision = "none"
    /\ fetchOutcome = "none"
    /\ fetched = <<>>
    /\ delays = 0
    /\ delayPending = FALSE
    /\ stopReason = "none"

fetchLocals == << attempt, backoff, status, body, html >>
fetchObs    == << requests, transients, sleeps, decision, fetchOutcome >>
params      == << start_url, max_pages, max_attempts >>

\* lines 237-263: visited = set(); current = start_url; header if file is new
Start ==
    /\ pc = "start"
    /\ current' = start_url
    /\ output' = IF output = <<>> THEN <<HeaderBlock>> ELSE output
    /\ pc' = "loop"
    /\ UNCHANGED << pageVars, params, visited, page_count, next_link, collected_footnotes,
                    progress, fetchLocals, fetchObs, fetched, delays,
                    delayPending, stopReason >>

\* mutant: the page cap is not tested
LoopContinues_NoCap(cur, count, cap) == cur # NoUrl

\* the while condition of line 265
LoopContinues(cur, count, cap) == cur # NoUrl /\ count < cap

\* mutant: the visited set is never consulted
AlreadyVisited_Never(u, v) == FALSE

\* line 266: the URL about to be fetched is already in visited
AlreadyVisited(u, v) == u \in v

\* line 265 false, or lines 266-268: leave the loop
LoopExit ==
    /\ pc = "loop"
    /\ \/ ~LoopContinues(current, page_count, max_pages)
       \/ AlreadyVisited(current, visited)
    /\ pc' = "finish"
    /\ stopReason' = IF stopReason # "none" THEN stopReason
                     ELSE IF current = NoUrl THEN "empty_seed"
                     ELSE IF page_count >= max_pages THEN "cap"
                     ELSE "visited"
    /\ UNCHANGED << pageVars, params, current, visited, page_count, next_link,
                    collected_footnotes, output, progress, fetchLocals,
                    fetchObs, fetched, delays, delayPending >>

\* line 272 and lines 98-100: enter fetch_with_backoff(current)
FetchCall ==
    /\ pc = "loop"
    /\ LoopContinues(current, page_count, max_pages)
    /\ ~AlreadyVisited(current, visited)
    /\ attempt' = 0
    /\ backoff' = BACKOFF_INITIAL
    /\ status' = NoStatus
    /\ body' = NoBody
    /\ html' = NoBody
    /\ requests' = 0
    /\ transients' = 0
    /\ sleeps' = <<>>
    /\ decision' = "none"
    /\ fetchOutcome' = "pending"
    /\ pc' = "fetch_loop"
    /\ UNCHANGED << pageVars, params, current, visited, page_count, next_link,
                    collected_footnotes, output, progress, fetched, delays,
                    delayPending, stopReason >>

\* mutant: one attempt too many
AttemptsLeft_OffByOne(a, n) == a <= n

\* the while condition of line 102
AttemptsLeft(a, n) == a < n

\* lines 103-110: the request raises requests.RequestException
RequestFails ==
    /\ pc = "fetch_loop"
    /\ AttemptsLeft(attempt, max_attempts)
    /\ attempt' = attempt + 1
    /\ requests' = requests + 1
    /\ transients' = transients + 1
    /\ decision' = "retry_network"
    /\ delayPending' = FALSE
    /\ pc' = "backoff_sleep"
    /\ UNCHANGED << pageVars, params, current, visited, page_count, next_link,
                    collected_footnotes, output, progress, backoff, status,
                    body, html, sleeps, fetchOutcome, fetched, delays,
                    stopReason >>

\* mutant: client errors are retried like server errors
Classify_Retry4xx(s, b) ==
    IF s >= 400 THEN "retry_status"
    ELSE IF s = 200 /\ looks_like_error_page(b) THEN "retry_body"
    ELSE IF s = 200 THEN "return_ok"
    ELSE "return_other"

\* the branch one attempt takes on a response (lines 116-136)
Classify(s, b) ==
    IF IsRetryStatus(s) THEN "retry_status"
    ELSE IF s = 200 /\ looks_like_error_page(b) THEN "retry_body"
    ELSE IF s = 200 THEN "return_ok"
    ELSE "return_other"

IsRetry(d) == d \in {"retry_network", "retry_status", "retry_body"}

\* lines 103-136: the request returns a response, which is classified
RequestResponds ==
    /\ pc = "fetch_loop"
    /\ AttemptsLeft(attempt, max_attempts)
    /\ \E r \in Responses :
       LET s == r.status
           b == r.body
       IN
         /\ attempt' = attempt + 1
         /\ requests' = requests + 1
         /\ status' = s
         /\ body' = b
         /\ decision' = Classify(s, b)
         /\ delayPending' = FALSE
         /\ IF IsRetry(Classify(s, b))
            THEN /\ transients' = transients + 1
                 /\ pc' = "backoff_sleep"
                 /\ UNCHANGED << html, fetchOutcome, fetched >>
            ELSE /\ transients' = transients
                 /\ html' = b
                 /\ fetchOutcome' = "returned"
                 /\ fetched' = Append(fetched, current)
                 /\ pc' = "processing"
    /\ UNCHANGED << pageVars, params, current, visited, page_count, next_link,
                    collected_footnotes, output, progress, backoff, sleeps,
                    delays, stopReason >>

\* mutant: the backoff grows by a fixed step
NextBackoff_Additive(b) == b + BACKOFF_INITIAL

\* backoff *= BACKOFF_MULTIPLIER
NextBackoff(b) == b * BACKOFF_MULTIPLIER

\* time.sleep(backoff); backoff *= BACKOFF_MULTIPLIER; continue
BackoffSleep ==
    /\ pc = "backoff_sleep"
    /\ sleeps' = Append(sleeps, backoff)
    /\ backoff' = NextBackoff(backoff)
    /\ pc' = "fetch_loop"
    /\ UNCHANGED << pageVars, params, current, visited, page_count, next_link,
                    collected_footnotes, output, progress, attempt, status,
                    body, html, requests, transients, decision, fetchOutcome,
                    fetched, delays, delayPending, stopReason >>

\* mutant: the failure is swallowed and the empty result is processed
FetchExhausted_AppendsBroken ==
    /\ pc = "fetch_loop"
    /\ attempt >= max_attempts
    /\ fetchOutcome' = "raised"
    /\ stopReason' = "aborted"
    /\ pc' = "processing"
    /\ UNCHANGED << pageVars, params, current, visited, page_count, next_link,
                    collected_footnotes, output, progress, fetchLocals,
                    requests, transients, sleeps, decision, fetched, delays,
                    delayPending >>

\* line 139 raises; lines 273-276 catch it and break
FetchExhausted ==
    /\ pc = "fetch_loop"
    /\ ~AttemptsLeft(attempt, max_attempts)
    /\ fetchOutcome' = "raised"
    /\ stopReason' = "aborted"
    /\ pc' = "finish"
    /\ UNCHANGED << pageVars, params, current, visited, page_count, next_link,
                    collected_footnotes, output, progress, fetchLocals,
                    requests, transients, sleeps, decision, fetched, delays,
                    delayPending >>

\* find_next_link on the parsed body: an empty body has no nav_right anchor
NextLinks(b) == IF BodyLen(b) = 0 THEN {NoUrl} ELSE Urls \cup {NoUrl}

\* mutant: the record is written before the URL is marked visited
PersistAfterPage_BeforeMark(v, cur, link) == save_progress(v, link)

\* what line 294 persists
PersistAfterPage(v, cur, link) == save_progress(v \cup {cur}, link)

\* lines 279-294: parse, capture next link, convert, append, mark, persist
ProcessPage ==
    /\ pc = "processing"
    /\ \E link \in NextLinks(html), hasFootnotes \in BOOLEAN :
         /\ next_link' = link
         /\ output' = safe_append_to_file(output, PageBlock(current))
         /\ collected_footnotes' =
                IF hasFootnotes
                THEN collected_footnotes + 1
                ELSE collected_footnotes
         /\ visited' = visited \cup {current}
         /\ page_count' = page_count + 1
         /\ progress' = PersistAfterPage(visited, current, link)
    \* the frame of the finished fetch call is gone
    /\ attempt' = 0
    /\ backoff' = 0
    /\ status' = NoStatus
    /\ body' = NoBody
    /\ html' = NoBody
    /\ requests' = 0
    /\ transients' = 0
    /\ sleeps' = <<>>
    /\ decision' = "none"
    /\ fetchOutcome' = "none"
    /\ pc' = "delay"
    /\ UNCHANGED << pageVars, params, current, fetched, delays, delayPending,
                    stopReason >>

\* lines 297-298: time.sleep(delay), with delay = REQUEST_DELAY
PoliteDelay ==
    /\ pc = "delay"
    /\ delays' = delays + 1
    /\ delayPending' = TRUE
    /\ pc' = "advance"
    /\ UNCHANGED << pageVars, params, current, visited, page_count, next_link,
                    collected_footnotes, output, progress, fetchLocals,
                    fetchObs, fetched, stopReason >>

\* lines 301-310
Advance ==
    /\ pc = "advance"
    /\ IF next_link # NoUrl
       THEN /\ next_link' = StripFragment(next_link)
            /\ IF AlreadyVisited(StripFragment(next_link), visited)
               THEN /\ pc' = "finish"
                    /\ stopReason' = "visited"
                    /\ UNCHANGED current
               ELSE /\ current' = StripFragment(next_link)
                    /\ pc' = "loop"
                    /\ UNCHANGED stopReason
       ELSE /\ current' = NoUrl
            /\ pc' = "loop"
            /\ stopReason' = "no_next"
            /\ UNCHANGED next_link
    /\ UNCHANGED << pageVars, params, visited, page_count, collected_footnotes, output,
                    progress, fetchLocals, fetchObs, fetched, delays,
                    delayPending >>

\* what line 322 persists
FinalNextUrl(cur) == NoUrl

\* lines 313-322: combined footnotes footer, final progress save
Finish ==
    /\ pc = "finish"
    /\ output' = IF collected_footnotes > 0
                 THEN safe_append_to_file(output, FooterBlock)
                 ELSE output
    /\ progress' = save_progress(visited, FinalNextUrl(current))
    /\ pc' = "done"
    /\ UNCHANGED << pageVars, params, current, visited, page_count, next_link,
                    collected_footnotes, fetchLocals, fetchObs, fetched,
                    delays, delayPending, stopReason >>

Next ==
    \/ Start
    \/ LoopExit
    \/ FetchCall
    \/ RequestFails
    \/ RequestResponds
    \/ BackoffSleep
    \/ FetchExhausted
    \/ ProcessPage
    \/ PoliteDelay
    \/ Advance
    \/ Finish

Spec == Init /\ [][Next]_vars

\* the run is a single sequential thread: a step that can be taken is taken
FairSpec == Spec /\ WF_vars(Next)

----------------------------------------------------------------------------
(* process_one_page (extract_one_page.py lines 252-276) *)

\* run_resilient is not running
CrawlIdle ==
    /\ start_url = NoUrl
    /\ max_pages = 1
    /\ max_attempts = 1
    /\ pc = "idle"
    /\ current = NoUrl
    /\ visited = {}
    /\ page_count = 0
    /\ next_link = NoUrl
    /\ collected_footnotes = 0
    /\ output = <<>>
    /\ progress = NoProgress
    /\ attempt = 0
    /\ backoff = 0
    /\ status = NoStatus
    /\ body = NoBody
    /\ html = NoBody
    /\ requests = 0
    /\ transients = 0
    /\ sleeps = <<>>
    /\ decision = "none"
    /\ fetchOutcome = "none"
    /\ fetched = <<>>
    /\ delays = 0
    /\ delayPending = FALSE
    /\ stopReason = "none"

\* the tree BeautifulSoup built from the fetched page
InitPage ==
    /\ CrawlIdle
    /\ ppc = "parsed"
    /\ soup \in { [EmptySoup EXCEPT !.footdiv = c, !.footInMain = b] :
                    <<c, b>> \in { x \in (Containers \cup {NoContainer})
                                          \X BOOLEAN : x[2] => x[1].present } }
    /\ footnotes = <<>>
    /\ written = <<>>
    /\ content = NoContent
    /\ combined = NoText

\* mutant: the container is read but left in the tree
ExtractFootnotes_KeepsContainer ==
    /\ ppc = "parsed"
    /\ footnotes' = extract_footnotes(soup.footdiv)
    /\ ppc' = "extracted"
    /\ UNCHANGED << crawlVars, soup, written, content, combined >>

\* line 268: footnotes = extract_footnotes(soup); the container is decomposed
ExtractFootnotes ==
    /\ ppc = "parsed"
    /\ footnotes' = extract_footnotes(soup.footdiv)
    /\ soup' = [soup EXCEPT !.footdiv = NoContainer]
    /\ ppc' = "extracted"
    /\ UNCHANGED << crawlVars, written, content, combined >>

\* line 273: replace_inline_footnote_refs(soup, footnotes)
ReplaceInlineRefs ==
    /\ ppc = "extracted"
    /\ soup' = [soup EXCEPT
                  !.refs = replace_inline_footnote_refs(soup.inline, footnotes)]
    /\ ppc' = "replaced"
    /\ UNCHANGED << crawlVars, footnotes, written, content, combined >>

\* line 276: convert_and_write(soup, footnotes, output_file)
ConvertAndWrite ==
    /\ ppc = "replaced"
    /\ content' = find_main_content(soup.elements)
    /\ written' = MainMd(soup) \o FootMd(footnotes)
    /\ combined' = [combined EXCEPT !.text = CollapseBlankLines(combined.joined)]
    /\ ppc' = "written"
    /\ UNCHANGED << crawlVars, soup, footnotes >>

\* fetch_to_md.py, clean_and_extract_parts and html_to_markdown_for_page:
\* the container is serialized, decomposed, and the content converted
CleanAndExtractParts ==
    /\ ppc = "parsed"
    /\ soup' = [soup EXCEPT !.footdiv = NoContainer]
    /\ content' = find_main_content(soup.elements)
    /\ written' = MainMd(soup') \o FootnotesBlob(soup.footdiv)
    /\ ppc' = "parts_written"
    /\ UNCHANGED << crawlVars, footnotes, combined >>

NextPage ==
    \/ ExtractFootnotes
    \/ ReplaceInlineRefs
    \/ ConvertAndWrite
    \/ CleanAndExtractParts

SpecPage == InitPage /\ [][NextPage]_vars

\* pages whose text carries inline references to an ordered footnote list
InitRefs ==
    /\ CrawlIdle
    /\ ppc = "parsed"
    /\ soup \in { [EmptySoup EXCEPT !.footdiv = c, !.inline = r] :
                    <<c, r>> \in (RefContainers \cup {NoContainer})
                                    \X SeqsUpTo(Elements, MaxRefs) }
    /\ footnotes = <<>>
    /\ written = <<>>
    /\ content = NoContent
    /\ combined = NoText

SpecRefs == InitRefs /\ [][NextPage]_vars

\* pages that differ in their headings, or in their tables
InitNoise ==
    /\ CrawlIdle
    /\ ppc = "loaded"
    /\ soup \in { [EmptySoup EXCEPT !.headings = hs] :
                    hs \in SeqsUpTo(Headings, MaxHeadings) }
               \cup { [EmptySoup EXCEPT !.tables = tbs] :
                    tbs \in SeqsUpTo(Tables, MaxTables) }
    /\ footnotes = <<>>
    /\ written = <<>>
    /\ content = NoContent
    /\ combined = NoText

\* line 258: remove_top_kalash_heading(soup)
RemoveTopKalashHeading ==
    /\ ppc = "loaded"
    /\ soup' = [soup EXCEPT
                  !.headings = remove_top_kalash_heading(soup.headings)]
    /\ ppc' = "heading_done"
    /\ UNCHANGED << crawlVars, footnotes, written, content, combined >>

\* line 262: remove_nav_table(soup)
RemoveNavTable ==
    /\ ppc = "heading_done"
    /\ soup' = [soup EXCEPT !.tables = remove_nav_table(soup.tables)]
    /\ ppc' = "tables_done"
    /\ UNCHANGED << crawlVars, footnotes, written, content, combined >>

NextNoise ==
    \/ RemoveTopKalashHeading
    \/ RemoveNavTable

SpecNoise == InitNoise /\ [][NextNoise]_vars

\* pages that differ in the elements the content selector looks at
InitSelect ==
    /\ CrawlIdle
    /\ ppc = "parsed"
    /\ soup \in { [EmptySoup EXCEPT !.elements = els] :
                    els \in SeqsUpTo(PageElements, MaxElements) }
    /\ footnotes = <<>>
    /\ written = <<>>
    /\ content = NoContent
    /\ combined = NoText

SpecSelect == InitSelect /\ [][NextPage]_vars

\* pages that differ in the text convert_and_write has joined (line 243)
InitText ==
    /\ CrawlIdle
    /\ ppc = "parsed"
    /\ soup = EmptySoup
    /\ footnotes = <<>>
    /\ written = <<>>
    /\ content = NoContent
    /\ combined \in [joined : Texts, text : {<<>>}]

SpecText == InitText /\ [][NextPage]_vars

----------------------------------------------------------------------------
(* Properties of the crawl *)

StrictlyIncreasing(q) == \A i \in 1..(Len(q) - 1) : q[i] < q[i + 1]
NoDup(q) == \A i, j \in 1..Len(q) : i # j => q[i] # q[j]
BlockUrls(file) == { file[i].url : i \in PageBlocks(file) }
ResponseSeen == decision \in {"retry_status", "retry_body",
                              "return_ok", "return_other"}
HasSignature(b) == b.sig \in {"max_user_connections", "MAX_USER_CONNECTIONS",
                              "FATAL ERROR"}

\* C1: a fetch_with_backoff call in which every attempt was transient ends
\* by raising, after exactly max_attempts requests, with strictly increasing
\* backoff sleeps, and returns no body; while it runs it never issues more
\* than max_attempts requests.
C1_ExhaustionAfterNTransients ==
    /\ (fetchOutcome \in {"returned", "raised"} /\ transients = requests)
         => /\ fetchOutcome = "raised"
            /\ requests = max_attempts
            /\ StrictlyIncreasing(sleeps)
            /\ html = NoBody
            /\ stopReason = "aborted"
    /\ fetchOutcome = "pending"
         => (requests <= max_attempts /\ StrictlyIncreasing(sleeps))

C1_Witness ==
    /\ fetchOutcome = "raised"
    /\ max_attempts = 3
    /\ requests = 3
    /\ Len(sleeps) >= 2
    /\ decision = "retry_body"

C3_AbortKeepsOutput ==
    [][ /\ IsPrefix(output, output')
        /\ (fetchOutcome # "raised" /\ fetchOutcome' = "raised")
             => /\ output' = output
                /\ visited' = visited
                /\ current \notin visited'
                /\ current \notin BlockUrls(output')
                /\ pc' = "finish"
        /\ fetchOutcome = "raised"
             => /\ fetchOutcome' = "raised"
                /\ requests' = requests
                /\ fetched' = fetched
                /\ visited' = visited
                /\ PageBlocks(output') = PageBlocks(output)
                /\ pc' \in {"finish", "done"}
      ]_vars

C3_Witness ==
    /\ pc = "done"
    /\ fetchOutcome = "raised"
    /\ Cardinality(PageBlocks(output)) >= 1
    /\ current \notin visited

\* C4 as stated: a 200 body of at least 100 characters without a failure
\* signature is returned (together with the 5xx/429 and signature cases).
C4_Original ==
    ResponseSeen =>
        /\ (status >= 500 \/ status = 429) => IsRetry(decision)
        /\ (status = 200 /\ HasSignature(body)) => IsRetry(decision)
        /\ (status = 200 /\ BodyLen(body) >= MIN_BODY_LEN
                /\ ~HasSignature(body))
             => (decision = "return_ok" /\ html = body)

\* C4 (amended): status >= 500 or 429 is transient whatever the body; a 200
\* body with a failure signature in any letter case is transient; a 200 body
\* without a signature whose length after stripping surrounding whitespace
\* is at least 100 is not transient and is the body returned.
C4_TransientDecision ==
    ResponseSeen =>
        /\ (status >= 500 \/ status = 429) => IsRetry(decision)
        /\ (status = 200 /\ HasSignature(body)) => IsRetry(decision)
        /\ (status = 200 /\ StrippedLen(body) >= MIN_BODY_LEN
                /\ ~HasSignature(body))
             => (decision = "return_ok" /\ html = body)

C4_Witness ==
    /\ status = 200
    /\ body.lead > 0
    /\ StrippedLen(body) >= MIN_BODY_LEN
    /\ decision = "return_ok"
    /\ html = body

\* C5: a response that is a non-transient 200, or has a 3xx/4xx status
\* other than 429, ends the call on that attempt: its body is returned
\* unchanged, no sleep follows the attempt, and no further request is made.
C5_ReturnsImmediately ==
    /\ (ResponseSeen
          /\ \/ (status = 200 /\ ~looks_like_error_page(body))
             \/ (status \in 300..499 /\ status # 429))
         => /\ fetchOutcome = "returned"
            /\ html = body
            /\ pc = "processing"
            /\ requests = transients + 1
            /\ Len(sleeps) = transients
    /\ fetchOutcome = "returned" => decision \in {"return_ok", "return_other"}

C5_Witness ==
    /\ fetchOutcome = "returned"
    /\ status = 404
    /\ attempt = 1
    /\ max_attempts = 3
    /\ html = body

\* C6: whenever a progress record exists its visited set is exactly the set
\* of URLs whose page blocks were appended in this run, and right after a
\* page's persist its next_url is the next link found on that page.
C6_PersistedMatchesOutput ==
    progress.saved =>
        /\ progress.visited = BlockUrls(output)
        /\ progress.visited = visited
        /\ pc \in {"delay", "advance"} => progress.next_url = next_link

C6_Witness ==
    /\ pc = "delay"
    /\ Cardinality(progress.visited) = 2
    /\ progress.next_url # NoUrl
    /\ progress.next_url.frag = 1

\* C7: when the run has stopped, the persisted next_url is the URL not yet
\* fetched successfully (after an abort or the page cap), and it is null
\* only when there was no next link.
C7_StopRecordResumable ==
    pc = "done" =>
        /\ progress.saved
        /\ stopReason \in {"aborted", "cap"} => progress.next_url = current
        /\ progress.next_url = NoUrl
             => stopReason \in {"no_next", "empty_seed"}

\* C8: no polite delay follows a failed fetch, and every polite delay taken
\* is followed by another fetch before the run ends.
C8_DelayOnlyBetweenFetches ==
    /\ fetchOutcome = "raised" => pc \notin {"delay", "advance"}
    /\ pc = "done" => ~delayPending

\* C9: every run stops, and at no point holds more than max_pages page
\* blocks appended in this run.
C9_Terminates ==
    /\ <>(pc = "done")
    /\ [](Cardinality(PageBlocks(output)) <= max_pages)

C9_Witness ==
    /\ pc = "done"
    /\ stopReason = "cap"
    /\ max_pages = 2
    /\ Cardinality(PageBlocks(output)) = 2
    /\ next_link # NoUrl

\* C15 as stated: a response whose body is shorter than 100 characters
\* (or empty) is backed off and retried whatever its status.
C15_Original ==
    (ResponseSeen /\ BodyLen(body) < MIN_BODY_LEN) => IsRetry(decision)

\* C15 (amended): looks_like_error_page holds of every body shorter than 100
\* characters and of the empty body; the fetcher consults it only for status
\* 200, so a 200 with such a body is retried, and a response with such a
\* body and a status below 500 other than 200 and 429 is returned unchanged.
C15_ShortBodyDecision ==
    (ResponseSeen /\ BodyLen(body) < MIN_BODY_LEN) =>
        /\ looks_like_error_page(body)
        /\ status = 200 => decision = "retry_body"
        /\ IsRetryStatus(status) => decision = "retry_status"
        /\ (status # 200 /\ ~IsRetryStatus(status))
             => (decision = "return_other" /\ html = body
                    /\ fetchOutcome = "returned")

C15_Witness ==
    /\ status = 404
    /\ BodyLen(body) = 0
    /\ decision = "return_other"
    /\ fetchOutcome = "returned"
    /\ attempt < max_attempts

----------------------------------------------------------------------------
(* Properties of the one-page pipeline *)

FootnoteLines(doc) == SelectSeq(doc, LAMBDA l : l.kind = "footnote")

\* C10: the records extract_footnotes returns carry the sequence numbers
\* 1..N in order, and the written document has exactly one footnote line
\* "[n] ..." per record, in the same order with the same numbers.
C10_ContiguousNumbers ==
    /\ ppc \in {"extracted", "written"}
         => \A i \in 1..Len(footnotes) : footnotes[i].num = i
    /\ ppc = "written"
         => /\ Len(FootnoteLines(written)) = Len(footnotes)
            /\ \A i \in 1..Len(footnotes) :
                  FootnoteLines(written)[i].num = i

C10_Witness ==
    /\ ppc = "written"
    /\ Len(footnotes) = 3
    /\ Len(FootnoteLines(written)) = 3
    /\ footnotes[3].md = ""

\* C11: once the footnote container has been read it is no longer in the
\* page tree, and no written document carries text of the container both in
\* its main content and in its footnotes.
C11_ContainerDetached ==
    /\ ppc \in {"extracted", "written", "parts_written"}
         => ~soup.footdiv.present
    /\ ppc \in {"written", "parts_written"}
         => ~ \E i, j \in 1..Len(written) :
                /\ written[i].kind = "main"
                /\ written[i].src = "footdiv"
                /\ written[j].kind = "footnote"

C11_Witness ==
    /\ ppc = "written"
    /\ soup.footInMain
    /\ Len(footnotes) >= 2
    /\ Len(FootnoteLines(written)) >= 2
    /\ \A i \in 1..Len(written) :
          written[i].kind = "main" => written[i].src = "body"


\* the inline references have been rewritten
RefsDone == ppc \in {"replaced", "written"}

\* the hyperlink of element i points at the local-id of a footnote record
HitsKnownId(i) ==
    /\ soup.inline[i].anchor
    /\ IsFragment(soup.inline[i].href)
    /\ Target(soup.inline[i].href) \in KnownIds(footnotes)

\* C12: within one page, two inline references whose fragment targets are
\* two distinct known local-ids are never rewritten to the same bracket
\* number: both are replaced by a bracket, and the two brackets differ.
C12_DistinctIdsDistinctNumbers ==
    RefsDone =>
        \A i, j \in 1..Len(soup.inline) :
            (/\ HitsKnownId(i) /\ HitsKnownId(j)
             /\ Target(soup.inline[i].href) # Target(soup.inline[j].href))
            => /\ soup.refs[i].anchor = "replaced"
               /\ soup.refs[j].anchor = "replaced"
               /\ soup.refs[i].content # soup.refs[j].content

C12_Witness ==
    /\ ppc = "replaced"
    /\ Len(footnotes) = 3
    /\ \E i, j \in 1..Len(soup.inline) :
          /\ soup.inline[i].href = "#a" /\ soup.inline[j].href = "#fn-2"
          /\ HitsKnownId(i) /\ HitsKnownId(j)
          /\ soup.refs[i].content = "3" /\ soup.refs[j].content = "2"

\* the three rules as the claim words them, on the hyperlink of element i
ById(i) == HitsKnownId(i)
ByDigits(i) ==
    /\ IsFragment(soup.inline[i].href)
    /\ TargetNumber(Target(soup.inline[i].href)) \in known_nums(footnotes)
ReplacedBy(i, c) ==
    /\ soup.refs[i].anchor = "replaced"
    /\ soup.refs[i].bracket
    /\ soup.refs[i].content = c
IdAndDigitRules(i, textRule, untouched) ==
    IF ById(i)
    THEN \E k \in 1..Len(footnotes) :
            /\ footnotes[k].id = Target(soup.inline[i].href)
            /\ ReplacedBy(i, NumStr(footnotes[k].num))
    ELSE IF ByDigits(i)
    THEN ReplacedBy(i, NumStr(TargetNumber(Target(soup.inline[i].href))))
    ELSE IF textRule
    THEN ReplacedBy(i, soup.inline[i].text)
    ELSE untouched

\* C16 as stated: rule (3) is "a footnote-reference class, or purely
\* numeric visible text of at most 6 characters", and a hyperlink matching
\* no rule is still in the tree, untouched, when the function returns.
C16_Original ==
    RefsDone =>
        \A i \in 1..Len(soup.inline) :
            soup.inline[i].anchor =>
                IdAndDigitRules(i,
                    \/ ClassMarksRef(soup.inline[i].cls)
                    \/ /\ IsDigit(soup.inline[i].text)
                       /\ TextLen(soup.inline[i].text) <= 6,
                    soup.refs[i].anchor = "kept")

\* C16: replace_inline_footnote_refs applies its rules to each hyperlink in
\* priority order, first match wins: (1) known local-id gives the sequence
\* number of a record with that id; (2) else the fragment's number, when
\* it is a known sequence number; (3) else a footnote-reference class or
\* numeric visible text, in both cases only when the visible text has at
\* most 6 characters, gives the visible text.  A hyperlink matching no rule
\* is left untouched by the hyperlink pass; the superscript pass then
\* removes it only together with an enclosing superscript whose whole text
\* is a number of at most 4 digits.
C16_RulePriority ==
    RefsDone =>
        \A i \in 1..Len(soup.inline) :
            soup.inline[i].anchor =>
                IdAndDigitRules(i,
                    /\ \/ ClassMarksRef(soup.inline[i].cls)
                       \/ IsDigit(soup.inline[i].text)
                    /\ TextLen(soup.inline[i].text) <= 6,
                    \/ soup.refs[i].anchor = "kept"
                    \/ /\ soup.refs[i].anchor = "removed"
                       /\ soup.inline[i].sup
                       /\ soup.inline[i].text = ""
                       /\ IsDigit(soup.inline[i].extra)
                       /\ TextLen(soup.inline[i].extra) <= 4)

C16_Witness ==
    /\ ppc = "replaced"
    /\ Len(soup.inline) = 2
    /\ soup.inline[1] = Link("#note2", "fnref", "see note")
    /\ 2 \notin known_nums(footnotes)
    /\ soup.refs[1].anchor = "kept"
    /\ soup.inline[2] = SupLink("", "", "", "5")
    /\ soup.refs[2].anchor = "removed"


\* C13: the blank-line normalization is idempotent: the text written is the
\* joined text with every run of three or more newlines collapsed to two,
\* and applying the normalization to it again gives the same text.
C13_NormalizationIdempotent ==
    /\ CollapseBlankLines(CollapseBlankLines(combined.joined))
          = CollapseBlankLines(combined.joined)
    /\ ppc = "written"
          => /\ combined.text = CollapseBlankLines(combined.joined)
             /\ CollapseBlankLines(combined.text) = combined.text

C13_Witness ==
    /\ ppc = "written"
    /\ combined.joined = <<"a", "n", "n", "n", "n", "n", "a">>
    /\ combined.text = <<"a", "n", "n", "a">>

\* element i carries a content keyword in its id or class
HasKeyword(i) ==
    \E k \in DOMAIN AttrKeywords :
        Contains(AttrOf(soup.elements[i], AttrKeywords[k].attr),
                 AttrKeywords[k].name)

\* C18: the content selector returns the main element if one exists; else
\* the article element; else, among all elements whose id or class contains
\* a content keyword (and that have text), the one whose rendered text is
\* longest, so that no other keyword-matching element has longer text than
\* the one selected; else the document body.
C18_LongestKeywordElement ==
    ppc \in {"written", "parts_written"} =>
        LET els == soup.elements
            n   == Len(els)
        IN  IF \E i \in 1..n : els[i].tag = "main"
            THEN content \in 1..n /\ els[content].tag = "main"
            ELSE IF \E i \in 1..n : els[i].tag = "article"
            THEN content \in 1..n /\ els[content].tag = "article"
            ELSE IF \E i \in 1..n : HasKeyword(i) /\ els[i].len > 0
            THEN /\ content \in 1..n
                 /\ HasKeyword(content)
                 /\ \A j \in 1..n :
                       HasKeyword(j) => els[j].len <= els[content].len
            ELSE content = Body

\* the headings the rule looks at whose text matches the pattern
MatchingHeadings ==
    { i \in 1..Len(soup.headings) :
        /\ soup.headings[i].level \in SearchedLevels
        /\ MatchesKalash(soup.headings[i].text) }

\* C17: remove_top_kalash_heading removes at most one heading per page: the
\* first heading (in document order) whose text matches the pattern is
\* removed, any later matching heading and every heading lacking the
\* pattern is preserved.
C17_FirstMatchRemoved ==
    ppc \in {"heading_done", "tables_done"} =>
        \A i \in 1..Len(soup.headings) :
            ~soup.headings[i].alive
                <=> /\ i \in MatchingHeadings
                    /\ \A j \in MatchingHeadings : i <= j

\* the style attribute reads "margin: auto" once case and whitespace
\* (spaces, tabs, newlines) are set aside
IsMarginAutoStyle(st) ==
    LET NotBlank(t) == t \notin {" ", "\t", "\n"}
        kept == SelectSeq(st, NotBlank)
    IN  /\ Len(kept) = 3
        /\ LowerPiece(kept[1]) = "margin"
        /\ kept[2] = ":"
        /\ LowerPiece(kept[3]) = "auto"

\* C14: remove_nav_table removes every table whose style attribute is
\* "margin: auto" written with any letter case and any whitespace (spaces,
\* tabs, newlines) inside it, whatever links the table contains.
C14_MarginAutoRemoved ==
    ppc = "tables_done" =>
        \A i \in 1..Len(soup.tables) :
            IsMarginAutoStyle(soup.tables[i].style) => ~soup.tables[i].alive
====
